---- MODULE Spec2Model ----
(***************************************************************************)
(* lyrics-fetch as a state machine: the retry variant of retrieveLyrics    *)
(* (src/unnamed/part_000, lines 229-265, specification Spec), the path of  *)
(* the song duration into the query (lines 184-234, SpecDuration), the     *)
(* directory walk with findFiles, skipFile and processFile (lines 74-225,  *)
(* SpecWalk) and the earlier variant of retrieveLyrics (src/main.go, lines *)
(* 179-197, SpecEarlier).                                                  *)
(*                                                                         *)
(* One step of retrieveLyrics is one pass through the body of the retry    *)
(* loop:                                                                   *)
(* the call of the lookup client, the classification of what it returned,  *)
(* and the sleep or the return that follows.  Strings are modelled by      *)
(* numbers: 0 is the empty string "", k > 0 is the k-th non-empty text.    *)
(* An error value is a number too: 0 is nil, k > 0 is the k-th error.      *)
(***************************************************************************)
EXTENDS Integers, Sequences, FiniteSets

VARIABLES
    pc,       \* "idle": not in retrieveLyrics, "loop": at the loop head, "done": returned;
              \* the earlier variant: "earlier" before its call, "earlierdone" returned
    i,        \* the loop counter of line 238
    res,      \* the apiResponse allocated at line 237
    retCode,  \* first value returned by the latest GetWithTimeout (line 239)
    err,      \* second value returned by the latest GetWithTimeout (line 239)
    ret,      \* the (string, error) pair returned by retrieveLyrics
    calls,    \* number of GetWithTimeout calls made by this invocation
    delays,   \* number of time.Sleep(time.Second) calls made by this invocation
    hist,     \* history: what the client delivered on each attempt of this invocation
    last,     \* history: the body the client decoded on the latest attempt
    lastErr,  \* history: the latest non-nil error the client reported (0: none yet)
    dpc,      \* duration path: "off", "decoded", "converted" or "sent"
    dur,      \* the float64 the duration decoder reported, in ticks of 1/Resolution s
    duration, \* the time.Duration songDuration returned, in ticks of 1/Resolution s
    sent,     \* the number the `duration` query parameter spells
    wpc,      \* the walk: "off", "walk" (between entries), "retrieve" (processFile
              \* waits for retrieveLyrics) or "end" (filepath.WalkDir has returned)
    tree,     \* the entries of the music directory, in traversal order
    cur,      \* the position in tree of the entry handed to findFiles next
    run,      \* the number of this run of the program
    fs,       \* the sidecar (.lrc) file of each base name
    fetchedCount, \* line 64
    skippedCount, \* line 68
    errCount,     \* line 71
    walkErr,  \* whether the traversal reported an error to findFiles (line 111)
    lastEnd,  \* history: how findFiles ended for the entry handled last
    fsStart,  \* history: the sidecar files when this run started
    fsBefore, \* history: the sidecar files when the entry handled last was handed over
    retrievedOk,  \* history: entries whose retrieval has ended Found or Instrumental in some run
    retrievedErr  \* history: entries whose latest retrieval ended NotFound or Exhausted

\* the variables of retrieveLyrics
retrVars == <<pc, i, res, retCode, err, ret, calls, delays, hist, last, lastErr>>

\* the variables of the path of the duration from the decoder to the query
durVars == <<dpc, dur, duration, sent>>

\* the variables of the directory walk
walkVars == <<wpc, tree, cur, run, fs, fetchedCount, skippedCount, errCount,
              walkErr, lastEnd, fsStart, fsBefore, retrievedOk, retrievedErr>>

vars == <<retrVars, durVars, walkVars>>

----------------------------------------------------------------------------
(* Bounds of the model *)

\* number of distinct non-empty synced lyrics texts the endpoint can send
NumLyrics == 2

\* number of distinct error values the client can report
NumErrs == 2

----------------------------------------------------------------------------
(* Program constants *)

\* retries := 3
retries == 3

\* status codes the endpoint is modelled to answer with; 0 is "no response"
StatusCodes == {0, 200, 404, 500}

----------------------------------------------------------------------------
(* The apiResponse struct and the lookup client *)

\* The JSON fields of apiResponse that the program reads.  The other fields
\* (id, trackName, artistName, albumName, duration, plainLyrics) are decoded
\* but never read, and are left out of the model.
Fields == {"instrumental", "syncedLyrics"}

\* new(apiResponse): every field has its zero value
NewApiResponse ==
    [Instrumental |-> FALSE, SyncedLyrics |-> 0]

\* A response body: the set of fields its JSON object carries and their
\* values.  A field the body does not carry (absent or null) has the zero
\* value here, so that each body has one representation.
Bodies ==
    { b \in [has : SUBSET Fields, instrumental : BOOLEAN,
             syncedLyrics : 0..NumLyrics] :
        /\ ("instrumental" \notin b.has => b.instrumental = FALSE)
        /\ ("syncedLyrics" \notin b.has => b.syncedLyrics = 0) }

\* a body that carries no payload
NoPayload ==
    [has |-> {}, instrumental |-> FALSE, syncedLyrics |-> 0]

\* What one GetWithTimeout call can deliver: an error value (0 is nil), a
\* status code and the body that was decoded.  Without a response (code 0)
\* there is an error and nothing was decoded; a response that was received
\* has a status code, and the client may or may not report an error with it.
ClientOutcomes ==
    { o \in [err : 0..NumErrs, code : StatusCodes, body : Bodies] :
        /\ (o.code = 0 => o.err # 0 /\ o.body = NoPayload) }

\* Decoding a JSON body into the target the caller passed: a field the body
\* carries is assigned, every other field of the target keeps its value.
Decode(target, body) ==
    [Instrumental |-> IF "instrumental" \in body.has
                       THEN body.instrumental ELSE target.Instrumental,
     SyncedLyrics |-> IF "syncedLyrics" \in body.has
                       THEN body.syncedLyrics ELSE target.SyncedLyrics]

\* f.client.GetWithTimeout(ctx, apiEndpoint, res, query, nil, apiTimeout):
\* returns (status code, error) and decodes the body into res
GetWithTimeout(target, o) ==
    [retCode |-> o.code, err |-> o.err, res |-> Decode(target, o.body)]

----------------------------------------------------------------------------
(* retrieveLyrics *)

\* the error values retrieveLyrics returns; wraps is the error value the
\* returned error wraps (0: none)
NilError == [msg |-> "nil", retries |-> 0, wraps |-> 0]

\* fmt.Errorf("no lyrics found for song '%s - %s (%s)'", artist, track, album)
NotFoundError == [msg |-> "no lyrics found for song", retries |-> 0, wraps |-> 0]

\* faulty variant: the returned error wraps the latest client error (%w)
ExhaustedErrorWrapping(e) ==
    [msg |-> "failed to retrieve lyrics from LRCLIB API after retries",
     retries |-> retries, wraps |-> e]

\* fmt.Errorf("failed to retrieve lyrics from LRCLIB API after %d retries", retries):
\* the format has no verb for an error, so whatever error e the client
\* reported before, the returned error wraps none
ExhaustedError(e) ==
    [msg |-> "failed to retrieve lyrics from LRCLIB API after retries",
     retries |-> retries, wraps |-> 0]

\* faulty variant: an off-by-one loop condition
LoopCondInclusive(n) == n <= retries

\* the loop condition of line 238
LoopCond(n) == n < retries

\* faulty variant: an error other than 404 continues without the sleep
ClassifyNoSleep(code, e, r) ==
    IF e # 0
    THEN IF code = 404 THEN "notfound" ELSE "fallthrough"
    ELSE IF r.Instrumental THEN "instrumental"
    ELSE IF r.SyncedLyrics # 0 THEN "found"
    ELSE "fallthrough"

\* faulty variant: the syncedLyrics test comes before the instrumental test
ClassifySyncedFirst(code, e, r) ==
    IF e # 0
    THEN IF code = 404 THEN "notfound" ELSE "sleep"
    ELSE IF r.SyncedLyrics # 0 THEN "found"
    ELSE IF r.Instrumental THEN "instrumental"
    ELSE "fallthrough"

\* The branch one pass of the loop body takes, from the values the client
\* returned and the state of res after the call.
Classify(code, e, r) ==
    IF e # 0
    THEN IF code = 404 THEN "notfound" ELSE "sleep"
    ELSE IF r.Instrumental THEN "instrumental"
    ELSE IF r.SyncedLyrics # 0 THEN "found"
    ELSE "fallthrough"

\* faulty variant: the return of line 258 copied to line 261
FoundTextEmpty(r) == 0

\* the text returned at line 261
FoundText(r) == r.SyncedLyrics

\* a body that carries instrumental=false and an empty syncedLyrics
\* (an empty string, or a null or absent field)
EmptyNotInstrumental(b) ==
    /\ "instrumental" \in b.has
    /\ ~b.instrumental
    /\ b.syncedLyrics = 0

\* What the history keeps of one attempt: whether the client reported an
\* error, the status code, whether the body was the empty, not-instrumental
\* one, and the number of delays made before the call.
HistEntry(o) ==
    [err |-> o.err # 0, code |-> o.code, empty |-> EmptyNotInstrumental(o.body),
     delaysBefore |-> delays]

\* the client call of line 239 and the bookkeeping common to every branch
Call(o) ==
    /\ pc = "loop"
    /\ LoopCond(i)
    /\ retCode' = GetWithTimeout(res, o).retCode
    /\ err' = GetWithTimeout(res, o).err
    /\ res' = GetWithTimeout(res, o).res
    /\ calls' = calls + 1
    /\ hist' = Append(hist, HistEntry(o))
    /\ last' = o.body
    /\ lastErr' = IF o.err # 0 THEN o.err ELSE lastErr
    /\ UNCHANGED <<durVars, walkVars>>

\* lines 229-237: the query is built, res is allocated once, the loop starts
Begin ==
    /\ pc \in {"idle", "done"}
    /\ pc' = "loop"
    /\ i' = 0
    /\ res' = NewApiResponse
    /\ retCode' = 0
    /\ err' = 0
    /\ ret' = [lyrics |-> 0, error |-> NilError]
    /\ calls' = 0
    /\ delays' = 0
    /\ hist' = << >>
    /\ last' = NoPayload
    /\ lastErr' = 0

\* lines 240-243: the client reported an error and the code is 404
AttemptNotFound(outcomes) ==
    \E o \in outcomes :
        /\ Call(o)
        /\ Classify(retCode', err', res') = "notfound"
        /\ ret' = [lyrics |-> 0, error |-> NotFoundError]
        /\ pc' = "done"
        /\ UNCHANGED <<i, delays>>

\* lines 244-251: any other error is logged, the loop sleeps and continues
AttemptSleep(outcomes) ==
    \E o \in outcomes :
        /\ Call(o)
        /\ Classify(retCode', err', res') = "sleep"
        /\ delays' = delays + 1
        /\ i' = i + 1
        /\ UNCHANGED <<pc, ret>>

\* lines 254-259: res.Instrumental
AttemptInstrumental(outcomes) ==
    \E o \in outcomes :
        /\ Call(o)
        /\ Classify(retCode', err', res') = "instrumental"
        /\ ret' = [lyrics |-> 0, error |-> NilError]
        /\ pc' = "done"
        /\ UNCHANGED <<i, delays>>

\* lines 260-262: res.SyncedLyrics != ""
AttemptFound(outcomes) ==
    \E o \in outcomes :
        /\ Call(o)
        /\ Classify(retCode', err', res') = "found"
        /\ ret' = [lyrics |-> FoundText(res'), error |-> NilError]
        /\ pc' = "done"
        /\ UNCHANGED <<i, delays>>

\* line 263: neither test of lines 254-262 held, the loop goes on at once
AttemptFallThrough(outcomes) ==
    \E o \in outcomes :
        /\ Call(o)
        /\ Classify(retCode', err', res') = "fallthrough"
        /\ i' = i + 1
        /\ UNCHANGED <<pc, ret, delays>>

\* line 264: the loop condition fails
Exhausted ==
    /\ pc = "loop"
    /\ ~LoopCond(i)
    /\ ret' = [lyrics |-> 0, error |-> ExhaustedError(lastErr)]
    /\ pc' = "done"
    /\ UNCHANGED <<i, res, retCode, err, calls, delays, hist, last, lastErr>>
    /\ UNCHANGED <<durVars, walkVars>>

RetrieveInit ==
    /\ pc = "idle"
    /\ i = 0
    /\ res = NewApiResponse
    /\ retCode = 0
    /\ err = 0
    /\ ret = [lyrics |-> 0, error |-> NilError]
    /\ calls = 0
    /\ delays = 0
    /\ hist = << >>
    /\ last = NoPayload
    /\ lastErr = 0

\* the duration path is not followed
DurationOff ==
    /\ dpc = "off"
    /\ dur = 0
    /\ duration = 0
    /\ sent = 0

\* a sidecar file that does not exist
NoFile == [exists |-> FALSE, text |-> 0, whole |-> TRUE]

\* the base names of the files of the music directory
Bases == {1, 2}

\* what findFiles has done for an entry: nothing yet
NoEnd ==
    [entry |-> 0, end |-> "none", calls |-> 0,
     wasOk |-> FALSE, wasErr |-> FALSE]

\* no directory is walked
WalkOff ==
    /\ wpc = "off"
    /\ tree = << >>
    /\ cur = 1
    /\ run = 1
    /\ fs = [b \in Bases |-> NoFile]
    /\ fetchedCount = 0
    /\ skippedCount = 0
    /\ errCount = 0
    /\ walkErr = FALSE
    /\ lastEnd = NoEnd
    /\ fsStart = [b \in Bases |-> NoFile]
    /\ fsBefore = [b \in Bases |-> NoFile]
    /\ retrievedOk = {}
    /\ retrievedErr = {}

Init ==
    /\ RetrieveInit
    /\ DurationOff
    /\ WalkOff

Next ==
    \/ Begin /\ UNCHANGED <<durVars, walkVars>>
    \/ AttemptNotFound(ClientOutcomes)
    \/ AttemptSleep(ClientOutcomes)
    \/ AttemptInstrumental(ClientOutcomes)
    \/ AttemptFound(ClientOutcomes)
    \/ AttemptFallThrough(ClientOutcomes)
    \/ Exhausted

Spec == Init /\ [][Next]_vars

----------------------------------------------------------------------------
(* The track duration: songDuration (lines 184-204) and line 234 *)

\* Fixed-point resolution: a float64 number of seconds and a time.Duration
\* are both counted in ticks, Resolution ticks to the second.
Resolution == 10

\* the longest track the decoder reports, in seconds
MaxSeconds == 126

\* time.Second, in ticks
Second == Resolution

\* what audioduration.Duration can report: a non-negative number of seconds
Durations == 0..(MaxSeconds * Resolution)

\* time.Duration(dur): the conversion of a float64 to an int64 discards the
\* fraction; the integer is the number of whole seconds in dur
ToInt64(d) == d \div Resolution

\* line 203: time.Second * time.Duration(dur)
SongDuration(d) == Second * ToInt64(d)

\* duration.Seconds(): the duration as a float64 number of seconds, which
\* in ticks is the duration itself
Seconds(d) == d

\* fmt.Sprintf("%.0f", x): the decimal digits of x rounded to an integer,
\* a tie going to the even neighbour
FormatF0(x) ==
    LET q == x \div Resolution
        r == x % Resolution
    IN  IF 2 * r < Resolution THEN q
        ELSE IF 2 * r > Resolution THEN q + 1
        ELSE IF q % 2 = 0 THEN q ELSE q + 1

\* audioduration.Duration reports the duration of the opened file
DecodeDuration ==
    /\ dpc = "off"
    /\ dur' \in Durations
    /\ dpc' = "decoded"
    /\ UNCHANGED <<duration, sent>>

\* lines 184-204 (the error is nil): songDuration returns
ConvertDuration ==
    /\ dpc = "decoded"
    /\ duration' = SongDuration(dur)
    /\ dpc' = "converted"
    /\ UNCHANGED <<dur, sent>>

\* line 234: query.Set("duration", fmt.Sprintf("%.0f", duration.Seconds()))
SetQueryDuration ==
    /\ dpc = "converted"
    /\ sent' = FormatF0(Seconds(duration))
    /\ dpc' = "sent"
    /\ UNCHANGED <<dur, duration>>

DurationNext ==
    \/ DecodeDuration /\ UNCHANGED <<retrVars, walkVars>>
    \/ ConvertDuration /\ UNCHANGED <<retrVars, walkVars>>
    \/ SetQueryDuration /\ UNCHANGED <<retrVars, walkVars>>

SpecDuration == Init /\ [][DurationNext]_vars

----------------------------------------------------------------------------
(* The outcome of a retrieval in the words of the specification *)

Outcome ==
    IF pc # "done" THEN "none"
    ELSE IF ret.error = NilError
         THEN IF ret.lyrics # 0 THEN "Found" ELSE "Instrumental"
         ELSE IF ret.error.msg = NotFoundError.msg THEN "NotFound" ELSE "Exhausted"

----------------------------------------------------------------------------
(* The directory walk: main (lines 74-102), findFiles (110-122),           *)
(* skipFile (207-225) and processFile (126-180)                            *)

\* the number of entries of the music directory
NumEntries == 2

\* the number of times the program is run over the music directory
MaxRuns == 2

\* the extensions map of lines 53-61
extensions == {".mp3", ".flac", ".aac", ".ogg", ".dsd", ".dsf", ".mp4"}

\* strings.ToLower, on the extensions of the entries below
ToLower(ext) == IF ext = ".FLAC" THEN ".flac" ELSE ext

\* The entries a music directory is made of here, in lexical order of their
\* names: two audio files with the same base name (and so the same sidecar),
\* a text file, a directory named like an audio file, and a symbolic link
\* with an audio extension.
Entries ==
    << [type |-> "file", base |-> 1, ext |-> ".FLAC"],
       [type |-> "file", base |-> 1, ext |-> ".mp3"],
       [type |-> "file", base |-> 1, ext |-> ".txt"],
       [type |-> "dir", base |-> 2, ext |-> ".mp3"],
       [type |-> "symlink", base |-> 2, ext |-> ".ogg"] >>

\* The directories walked: NumEntries of the entries. filepath.WalkDir (line
\* 97) hands them over in lexical order.
Trees ==
    { [k \in 1..NumEntries |-> Entries[f[k]]] :
        f \in { g \in [1..NumEntries -> 1..Len(Entries)] :
                  \A a, b \in 1..NumEntries : a < b => g[a] < g[b] } }

\* faulty variant: the test for a directory is missing
IsDirNever(e) == FALSE

\* entry.IsDir()
IsDir(e) == e.type = "dir"

\* line 216-218: the name of the lyrics file, the base name with ".lrc"
LyricsFile(e) == e.base

\* line 219: os.Stat returns no error
Stat(fsys, name) == fsys[name].exists

\* faulty variant: the test for an existing lyrics file is missing
SkipFileNoStat(e, fsys) ==
    IF IsDir(e) \/ ToLower(e.ext) \notin extensions
    THEN [skip |-> TRUE, outfile |-> 0]
    ELSE [skip |-> FALSE, outfile |-> LyricsFile(e)]

\* skipFile, lines 207-225
SkipFile(e, fsys) ==
    IF IsDir(e) \/ ToLower(e.ext) \notin extensions
    THEN [skip |-> TRUE, outfile |-> 0]
    ELSE IF Stat(fsys, LyricsFile(e))
         THEN [skip |-> TRUE, outfile |-> 0]
         ELSE [skip |-> FALSE, outfile |-> LyricsFile(e)]

\* The client outcomes of a walk: a transport error, a 404 reported as an
\* error, and a 200 with instrumental=true or with instrumental=false and any
\* syncedLyrics.
WalkOutcomes ==
    { [err |-> 1, code |-> 0, body |-> NoPayload],
      [err |-> 1, code |-> 404, body |-> NoPayload],
      [err |-> 0, code |-> 200,
       body |-> [has |-> Fields, instrumental |-> TRUE, syncedLyrics |-> 0]] }
    \cup
    { [err |-> 0, code |-> 200,
       body |-> [has |-> Fields, instrumental |-> FALSE, syncedLyrics |-> l]] :
        l \in 0..NumLyrics }

\* faulty variant: processFile returns the error of a failed lyrics write
FindFilesReturnWriteErr(how) ==
    IF how = "write" THEN [msg |-> "write", retries |-> 0, wraps |-> 0] ELSE NilError

\* What findFiles returns to filepath.WalkDir for an entry without a
\* traversal error: nil after a skip (line 118), else what processFile
\* returns (line 121), which is nil at each of its returns (lines 131, 139,
\* 145, 157, 164, 172, 179).
FindFilesReturn(how) == NilError

\* faulty variant: findFiles is entered for the next entry while the
\* retrieval for an entry is still running
HandOverConcurrent ==
    /\ wpc \in {"walk", "retrieve"}
    /\ cur <= Len(tree)
    /\ fsBefore' = fs

\* findFiles is entered for the entry at cur
HandOver ==
    /\ wpc = "walk"
    /\ cur <= Len(tree)
    /\ fsBefore' = fs

\* findFiles returns nil for the entry at cur
EndEntry(how, n) ==
    /\ lastEnd' = [entry |-> cur, end |-> how,
                   calls |-> n,
                   wasOk |-> cur \in retrievedOk, wasErr |-> cur \in retrievedErr]
    /\ cur' = cur + 1
    /\ wpc' = IF FindFilesReturn(how) = NilError THEN "walk" ELSE "end"
    /\ UNCHANGED <<tree, run, walkErr, fsStart>>

\* retrieveLyrics has returned to processFile: its variables are gone
ReturnFromRetrieve ==
    /\ wpc = "retrieve"
    /\ pc = "done"
    /\ pc' = "idle"
    /\ i' = 0
    /\ res' = NewApiResponse
    /\ retCode' = 0
    /\ err' = 0
    /\ ret' = [lyrics |-> 0, error |-> NilError]
    /\ calls' = 0
    /\ delays' = 0
    /\ hist' = << >>
    /\ last' = NoPayload
    /\ lastErr' = 0
    /\ retrievedOk' = IF ret.error = NilError
                      THEN retrievedOk \cup {cur} ELSE retrievedOk
    /\ retrievedErr' = IF ret.error = NilError
                       THEN retrievedErr \ {cur} ELSE retrievedErr \cup {cur}

\* lines 111-113: the traversal reports an error, findFiles returns it and
\* filepath.WalkDir ends the walk with it (line 97)
FindFilesWalkErr ==
    /\ wpc = "walk"
    /\ cur <= Len(tree)
    /\ walkErr' = TRUE
    /\ wpc' = "end"
    /\ UNCHANGED <<tree, cur, run, fs, fetchedCount, skippedCount, errCount,
                   lastEnd, fsStart, fsBefore, retrievedOk, retrievedErr>>
    /\ UNCHANGED <<retrVars, durVars>>

\* lines 115-119: skipFile says skip
FindFilesSkip ==
    /\ HandOver
    /\ SkipFile(tree[cur], fs).skip
    /\ skippedCount' = skippedCount + 1
    /\ EndEntry("skipped", 0)
    /\ UNCHANGED <<fs, fetchedCount, errCount, retrievedOk, retrievedErr>>
    /\ UNCHANGED <<retrVars, durVars>>

\* lines 127-132: os.Open fails
ProcessFileOpenErr ==
    /\ HandOver
    /\ ~SkipFile(tree[cur], fs).skip
    /\ errCount' = errCount + 1
    /\ EndEntry("open", 0)
    /\ UNCHANGED <<fs, fetchedCount, skippedCount, retrievedOk, retrievedErr>>
    /\ UNCHANGED <<retrVars, durVars>>

\* lines 135-140: tag.ReadFrom fails
ProcessFileTagErr ==
    /\ HandOver
    /\ ~SkipFile(tree[cur], fs).skip
    /\ errCount' = errCount + 1
    /\ EndEntry("tag", 0)
    /\ UNCHANGED <<fs, fetchedCount, skippedCount, retrievedOk, retrievedErr>>
    /\ UNCHANGED <<retrVars, durVars>>

\* lines 141-146: songDuration fails (decoder error or unsupported format)
ProcessFileDurationErr ==
    /\ HandOver
    /\ ~SkipFile(tree[cur], fs).skip
    /\ errCount' = errCount + 1
    /\ EndEntry("duration", 0)
    /\ UNCHANGED <<fs, fetchedCount, skippedCount, retrievedOk, retrievedErr>>
    /\ UNCHANGED <<retrVars, durVars>>

\* line 151: processFile calls retrieveLyrics
ProcessFileRetrieve ==
    /\ HandOver
    /\ ~SkipFile(tree[cur], fs).skip
    /\ Begin
    /\ wpc' = "retrieve"
    /\ UNCHANGED <<tree, cur, run, fs, fetchedCount, skippedCount, errCount,
                   walkErr, lastEnd, fsStart, retrievedOk, retrievedErr>>
    /\ UNCHANGED durVars

\* one pass of the retry loop, or its exit, while processFile waits
WalkAttempt(A) ==
    /\ wpc = "retrieve"
    /\ A

\* faulty variant: the output file is created before the error of
\* retrieveLyrics is looked at
ProcessFileLyricsErrCreates ==
    /\ ReturnFromRetrieve
    /\ ret.error # NilError
    /\ fs' = [fs EXCEPT ![LyricsFile(tree[cur])] =
                 [exists |-> TRUE, text |-> 0, whole |-> TRUE]]
    /\ errCount' = errCount + 1
    /\ EndEntry("lyrics", calls)
    /\ UNCHANGED <<fsBefore, fetchedCount, skippedCount>>
    /\ UNCHANGED durVars

\* lines 152-158: retrieveLyrics returned an error
ProcessFileLyricsErr ==
    /\ ReturnFromRetrieve
    /\ ret.error # NilError
    /\ errCount' = errCount + 1
    /\ EndEntry("lyrics", calls)
    /\ UNCHANGED <<fs, fsBefore, fetchedCount, skippedCount>>
    /\ UNCHANGED durVars

\* faulty variant: the failure of os.Create is logged and not counted
ProcessFileCreateErrUncounted ==
    /\ ReturnFromRetrieve
    /\ ret.error = NilError
    /\ EndEntry("create", calls)
    /\ UNCHANGED <<fs, fsBefore, fetchedCount, skippedCount, errCount>>
    /\ UNCHANGED durVars

\* lines 160-165: os.Create fails
ProcessFileCreateErr ==
    /\ ReturnFromRetrieve
    /\ ret.error = NilError
    /\ errCount' = errCount + 1
    /\ EndEntry("create", calls)
    /\ UNCHANGED <<fs, fsBefore, fetchedCount, skippedCount>>
    /\ UNCHANGED durVars

\* lines 160-173: os.Create succeeds and output.WriteString fails, having
\* written less than the lyrics
ProcessFileWriteErr ==
    /\ ReturnFromRetrieve
    /\ ret.error = NilError
    /\ ret.lyrics # 0
    /\ fs' = [fs EXCEPT ![LyricsFile(tree[cur])] =
                 [exists |-> TRUE, text |-> ret.lyrics, whole |-> FALSE]]
    /\ errCount' = errCount + 1
    /\ EndEntry("write", calls)
    /\ UNCHANGED <<fsBefore, fetchedCount, skippedCount>>
    /\ UNCHANGED durVars

\* lines 160-179: the lyrics are written to the output file
ProcessFileFetched ==
    /\ ReturnFromRetrieve
    /\ ret.error = NilError
    /\ fs' = [fs EXCEPT ![LyricsFile(tree[cur])] =
                 [exists |-> TRUE, text |-> ret.lyrics, whole |-> TRUE]]
    /\ fetchedCount' = fetchedCount + 1
    /\ EndEntry("fetched", calls)
    /\ UNCHANGED <<fsBefore, errCount, skippedCount>>
    /\ UNCHANGED durVars

\* line 97: filepath.WalkDir has handed over every entry and returns nil
WalkEnd ==
    /\ wpc = "walk"
    /\ cur > Len(tree)
    /\ wpc' = "end"
    /\ UNCHANGED <<tree, cur, run, fs, fetchedCount, skippedCount, errCount,
                   walkErr, lastEnd, fsStart, fsBefore, retrievedOk, retrievedErr>>
    /\ UNCHANGED <<retrVars, durVars>>

\* the program is run again over the same directory: the counters start
\* at zero, the files are as the run before left them
StartRun ==
    /\ wpc = "end"
    /\ run < MaxRuns
    /\ run' = run + 1
    /\ wpc' = "walk"
    /\ cur' = 1
    /\ fetchedCount' = 0
    /\ skippedCount' = 0
    /\ errCount' = 0
    /\ walkErr' = FALSE
    /\ lastEnd' = NoEnd
    /\ fsStart' = fs
    /\ fsBefore' = fs
    /\ UNCHANGED <<tree, fs, retrievedOk, retrievedErr>>
    /\ UNCHANGED <<retrVars, durVars>>

\* lines 74-96: the first run starts
WalkInit ==
    /\ wpc = "walk"
    /\ tree \in Trees
    /\ cur = 1
    /\ run = 1
    /\ fs = [b \in Bases |-> NoFile]
    /\ fetchedCount = 0
    /\ skippedCount = 0
    /\ errCount = 0
    /\ walkErr = FALSE
    /\ lastEnd = NoEnd
    /\ fsStart = [b \in Bases |-> NoFile]
    /\ fsBefore = [b \in Bases |-> NoFile]
    /\ retrievedOk = {}
    /\ retrievedErr = {}

InitWalk ==
    /\ RetrieveInit
    /\ DurationOff
    /\ WalkInit

NextWalk ==
    \/ FindFilesWalkErr
    \/ FindFilesSkip
    \/ ProcessFileOpenErr
    \/ ProcessFileTagErr
    \/ ProcessFileDurationErr
    \/ ProcessFileRetrieve
    \/ WalkAttempt(AttemptNotFound(WalkOutcomes))
    \/ WalkAttempt(AttemptSleep(WalkOutcomes))
    \/ WalkAttempt(AttemptInstrumental(WalkOutcomes))
    \/ WalkAttempt(AttemptFound(WalkOutcomes))
    \/ WalkAttempt(AttemptFallThrough(WalkOutcomes))
    \/ WalkAttempt(Exhausted)
    \/ ProcessFileLyricsErr
    \/ ProcessFileCreateErr
    \/ ProcessFileWriteErr
    \/ ProcessFileFetched
    \/ WalkEnd
    \/ StartRun

SpecWalk == InitWalk /\ [][NextWalk]_vars

----------------------------------------------------------------------------
(* The earlier variant of retrieveLyrics: src/main.go, lines 179-197 *)

\* fmt.Errorf("failed to retrieve lyrics from LRCLIB API: %w (Code: %d)", err, code)
EarlierClientError(e) ==
    [msg |-> "failed to retrieve lyrics from LRCLIB API", retries |-> 0, wraps |-> e]

\* fmt.Errorf("LRCLIB API returned non-positive response code: %d", code)
EarlierCodeError ==
    [msg |-> "LRCLIB API returned non-positive response code", retries |-> 0, wraps |-> 0]

\* faulty variant: only the server errors are rejected
EarlierCodeOkBelow500(code) == code < 500

\* the test of line 192, negated: the response code is accepted
EarlierCodeOk(code) == code = 200

\* lines 180-187: the query is built and res is allocated
EarlierBegin ==
    /\ pc \in {"idle", "earlierdone"}
    /\ pc' = "earlier"
    /\ i' = 0
    /\ res' = NewApiResponse
    /\ retCode' = 0
    /\ err' = 0
    /\ ret' = [lyrics |-> 0, error |-> NilError]
    /\ calls' = 0
    /\ delays' = 0
    /\ hist' = << >>
    /\ last' = NoPayload
    /\ lastErr' = 0

\* line 188: the one client call of the earlier variant
EarlierCall(o) ==
    /\ pc = "earlier"
    /\ retCode' = GetWithTimeout(res, o).retCode
    /\ err' = GetWithTimeout(res, o).err
    /\ res' = GetWithTimeout(res, o).res
    /\ calls' = calls + 1
    /\ hist' = Append(hist, HistEntry(o))
    /\ last' = o.body
    /\ lastErr' = IF o.err # 0 THEN o.err ELSE lastErr
    /\ pc' = "earlierdone"
    /\ UNCHANGED <<i, delays>>

\* lines 189-191: the client reported an error
EarlierErr ==
    \E o \in ClientOutcomes :
        /\ EarlierCall(o)
        /\ err' # 0
        /\ ret' = [lyrics |-> 0, error |-> EarlierClientError(err')]

\* lines 192-194: no error, and a response code other than 200
EarlierNon200 ==
    \E o \in ClientOutcomes :
        /\ EarlierCall(o)
        /\ err' = 0
        /\ ~EarlierCodeOk(retCode')
        /\ ret' = [lyrics |-> 0, error |-> EarlierCodeError]

\* line 196: res.SyncedLyrics is returned
EarlierOk ==
    \E o \in ClientOutcomes :
        /\ EarlierCall(o)
        /\ err' = 0
        /\ EarlierCodeOk(retCode')
        /\ ret' = [lyrics |-> res'.SyncedLyrics, error |-> NilError]

NextEarlier ==
    \/ EarlierBegin /\ UNCHANGED <<durVars, walkVars>>
    \/ EarlierErr /\ UNCHANGED <<durVars, walkVars>>
    \/ EarlierNon200 /\ UNCHANGED <<durVars, walkVars>>
    \/ EarlierOk /\ UNCHANGED <<durVars, walkVars>>

SpecEarlier == Init /\ [][NextEarlier]_vars

----------------------------------------------------------------------------
(* Vocabulary of the claims *)

\* the number of attempts made so far
NumAttempts == Len(hist)

\* attempt k ended in an error the client reported, other than a 404
TransportError(k) == hist[k].err /\ hist[k].code # 404

\* attempt k returned a successful response: no error, status 200
Successful(k) == ~hist[k].err /\ hist[k].code = 200

\* attempt k returned a status code that is neither a success nor 404
UpstreamError(k) == hist[k].code \notin {0, 200, 404}

\* the latest response carries instrumental=true
LastInstrumental == "instrumental" \in last.has /\ last.instrumental

\* the latest response carries instrumental=false
LastNotInstrumental == "instrumental" \in last.has /\ ~last.instrumental

\* the latest response carries a non-empty syncedLyrics
LastSynced == "syncedLyrics" \in last.has /\ last.syncedLyrics # 0

----------------------------------------------------------------------------
(* C1: whenever the first attempt comes back with status code 404, with or *)
(* without an error reported by the client, the retrieval has ended with   *)
(* NotFound after exactly one network call and no delay.                   *)
C1_NotFoundOnFirst404 ==
    (NumAttempts >= 1 /\ hist[1].code = 404)
        => (Outcome = "NotFound" /\ calls = 1 /\ delays = 0)

(* C2: an attempt whose status code is neither a success nor 404 never     *)
(* produces Found or Instrumental, and each such attempt but the last      *)
(* permitted one is followed by a delay.                                   *)
C2_UpstreamErrorRetried ==
    /\ (NumAttempts >= 1 /\ UpstreamError(NumAttempts))
           => Outcome \notin {"Found", "Instrumental"}
    /\ delays >= Cardinality({k \in 1..NumAttempts :
                                 UpstreamError(k) /\ k < retries})

(* C3: if every attempt returns a successful response with                  *)
(* instrumental=false and empty syncedLyrics, the retrieval ends with       *)
(* Exhausted after exactly 3 network calls and exactly 2 delays.            *)
C3_EmptyThriceExhausted ==
    (/\ pc = "done"
     /\ \A k \in 1..NumAttempts : Successful(k) /\ hist[k].empty)
        => (Outcome = "Exhausted" /\ calls = 3 /\ delays = 2)

(* C4: a finished retrieval has made at most one delay fewer than network   *)
(* calls, so at most 2: no delay follows the last attempt.                  *)
C4_DelaysOnlyBetweenAttempts ==
    pc = "done" => (delays <= calls - 1 /\ delays <= retries - 1)

(* C5: when attempts 1 and 2 fail with an error and attempt 3 returns a     *)
(* successful response with instrumental=false and non-empty syncedLyrics,  *)
(* the retrieval has ended with Found carrying attempt 3's syncedLyrics,    *)
(* after exactly 3 network calls and exactly 2 delays.                      *)
C5_Scenario ==
    /\ NumAttempts = 3
    /\ TransportError(1)
    /\ TransportError(2)
    /\ Successful(3)
    /\ LastNotInstrumental
    /\ LastSynced

C5_FoundOnThirdAttempt ==
    C5_Scenario =>
        /\ Outcome = "Found"
        /\ ret.lyrics = last.syncedLyrics
        /\ calls = 3
        /\ delays = 2

C5_Witness == C5_Scenario /\ pc = "done" /\ ret.lyrics = NumLyrics

(* C6: a successful response with instrumental=true ends the retrieval at   *)
(* once with Instrumental (empty text, no error), whatever syncedLyrics it  *)
(* carries, and no delay and no network call follows that attempt.          *)
C6_InstrumentalAtOnce ==
    (NumAttempts >= 1 /\ Successful(NumAttempts) /\ LastInstrumental)
        => /\ Outcome = "Instrumental"
           /\ ret.lyrics = 0
           /\ ret.error = NilError
           /\ calls = NumAttempts
           /\ delays = hist[NumAttempts].delaysBefore

C6_Witness ==
    /\ NumAttempts = 2
    /\ Successful(2)
    /\ LastInstrumental
    /\ LastSynced
    /\ Outcome = "Instrumental"

(* C7: a successful response with instrumental=false and non-empty          *)
(* syncedLyrics ends the retrieval with Found, the returned text is exactly *)
(* that response's syncedLyrics, and no delay or network call follows it.   *)
C7_FoundAtOnce ==
    (/\ NumAttempts >= 1
     /\ Successful(NumAttempts)
     /\ LastNotInstrumental
     /\ LastSynced)
        => /\ Outcome = "Found"
           /\ ret.lyrics = last.syncedLyrics
           /\ ret.error = NilError
           /\ calls = NumAttempts
           /\ delays = hist[NumAttempts].delaysBefore

C7_Witness ==
    /\ NumAttempts = 1
    /\ Successful(1)
    /\ LastNotInstrumental
    /\ last.syncedLyrics = NumLyrics
    /\ Outcome = "Found"
    /\ ret.lyrics = NumLyrics

(* C8: the retrieval returns Instrumental only if the latest response       *)
(* itself carries instrumental=true, and Found only with the syncedLyrics   *)
(* the latest response itself carries.                                      *)
C8_FreshResultEachAttempt ==
    /\ Outcome = "Instrumental" => LastInstrumental
    /\ Outcome = "Found" => (LastSynced /\ ret.lyrics = last.syncedLyrics)

C10_CallsBounded == calls <= retries

C10_Witness == calls = retries /\ pc = "loop"

(* C11: the number sent as the `duration` query parameter is a non-negative *)
(* integer and is the decoded duration rounded to the nearest whole second  *)
(* (at most half a second away from it), not the duration truncated.        *)
C11_DurationRounded ==
    dpc = "sent" =>
        /\ sent \in Nat
        /\ 2 * (sent * Resolution - dur) <= Resolution
        /\ 2 * (dur - sent * Resolution) <= Resolution

----------------------------------------------------------------------------
(* Vocabulary of the claims about the walk *)

\* the ways processFile ends with a failure
FailedEnds == {"open", "tag", "duration", "lyrics", "create", "write"}

\* the walk of this run has ended before every entry was handed over
EndedEarly == wpc = "end" /\ cur <= Len(tree)

\* C12: no per-file failure stops the walk. After processFile has failed for
\* an entry, at whatever step, the walker stands at the next entry in
\* traversal order; and a walk that ended before the last entry ended on an
\* error reported by the traversal itself.
C12_FailureNeverStopsWalk ==
    /\ lastEnd.end \in FailedEnds => cur = lastEnd.entry + 1
    /\ EndedEarly => walkErr

\* an entry failed and the entry after it was processed to the end
C12_Witness ==
    /\ lastEnd.entry = 2
    /\ lastEnd.end = "fetched"
    /\ errCount = 1

\* processFile goes on after retrieveLyrics has returned, and ends
AfterRetrieval == wpc = "retrieve" /\ wpc' # "retrieve"

\* the lyrics file of the entry at cur
Sidecar(fsys) == fsys[LyricsFile(tree[cur])]

FinalEnds == {"skipped", "fetched"} \cup FailedEnds

\* attempt k was followed by the delay of line 250
Delayed(k) == hist[k].err /\ hist[k].code # 404

\* C14: processing is strictly sequential. A retrieval runs only inside the
\* processing of one entry; every lookup call made so far has completed
\* before the next one is made, after each delay that followed an earlier
\* attempt; and an entry is taken up only when the entry before it has
\* reached its final state.
C14_StrictlySequential ==
    /\ pc # "idle" => wpc = "retrieve"
    /\ calls = Len(hist)
    /\ pc = "loop" => i = calls
    /\ \A k \in 1..Len(hist) :
          hist[k].delaysBefore = Cardinality({j \in 1..(k - 1) : Delayed(j)})
    /\ wpc \in {"walk", "retrieve"} =>
          /\ lastEnd.entry = cur - 1
          /\ cur > 1 => lastEnd.end \in FinalEnds

\* the second entry is at its second attempt, after a delay, and the first
\* entry has its sidecar
C14_Witness ==
    /\ wpc = "retrieve"
    /\ cur = 2
    /\ calls = 2
    /\ delays = 1
    /\ lastEnd.end = "fetched"

\* findFiles returns for the entry at cur in this step
EntryHandled == cur' = cur + 1

\* the entry at cur has a supported audio extension
Supported(e) == ToLower(e.ext) \in extensions

\* the entry was not skipped: processFile was called for it
Processed(end) == end.end \in {"fetched"} \cup FailedEnds

\* the frame of a skip: no lookup call is made, no file is written
SkipFrame ==
    /\ skippedCount' = skippedCount + 1
    /\ lastEnd'.calls = 0
    /\ calls' = calls
    /\ hist' = hist
    /\ fs' = fs

\* C15 as stated: an entry is processed only if it is a regular file with a
\* supported extension and without a sidecar; an entry that is a directory,
\* has another extension or has a sidecar causes no lookup call and no file
\* write.
C15_OnlyRegularFilesProcessed ==
    [][EntryHandled =>
        LET e == tree[cur]
            had == fsBefore'[LyricsFile(e)].exists
        IN  /\ Processed(lastEnd') => e.type = "file" /\ Supported(e) /\ ~had
            /\ (e.type = "dir" \/ ~Supported(e) \/ had) => SkipFrame
    ]_vars

\* C15, amended: an entry is processed only if it is not a directory, has a
\* supported extension and has no sidecar; an entry that is a directory, has
\* another extension or has a sidecar causes no lookup call and no file
\* write, so that an existing sidecar keeps its content.
C15_OnlyNonDirectoriesProcessed ==
    [][EntryHandled =>
        LET e == tree[cur]
            had == fsBefore'[LyricsFile(e)].exists
        IN  /\ Processed(lastEnd') => e.type # "dir" /\ Supported(e) /\ ~had
            /\ (e.type = "dir" \/ ~Supported(e) \/ had) => SkipFrame
    ]_vars

\* an audio file is skipped because the sidecar of its base name exists
C15_Witness ==
    /\ lastEnd.end = "skipped"
    /\ tree[lastEnd.entry].type = "file"
    /\ Supported(tree[lastEnd.entry])
    /\ fs[LyricsFile(tree[lastEnd.entry])].exists
    /\ fs = fsBefore

\* the lyrics file of the entry findFiles handled last
LastSidecar == fs[LyricsFile(tree[lastEnd.entry])]

\* C16: whenever processFile has ended by recording an error for a file, at
\* whatever step, no sidecar of that file exists afterwards (so skipFile
\* does not skip the file in a later run).
C16_NoSidecarAfterError ==
    lastEnd.end \in FailedEnds => ~LastSidecar.exists

\* the lyrics files written in full in this run
WrittenInRun ==
    {b \in Bases : fs[b].exists /\ fs[b].whole /\ ~fsStart[b].exists}

\* C17: every entry handed to findFiles without a traversal error increments
\* exactly one of the three counters, once: the counters add up to the number
\* of entries handled so far in this run, and fetchedCount is the number of
\* sidecars written successfully in this run.
C17_CountersAddUp ==
    /\ fetchedCount + skippedCount + errCount = cur - 1
    /\ fetchedCount = Cardinality(WrittenInRun)

\* a walk has ended with a written sidecar and a recorded error
C17_Witness ==
    /\ wpc = "end"
    /\ ~walkErr
    /\ fetchedCount = 1
    /\ errCount = 1

\* processFile ended before it called retrieveLyrics
BeforeLookup == {"open", "tag", "duration"}

\* C18 as stated: a file whose retrieval ended Found or Instrumental in an
\* earlier run causes no lookup call in a later run and its sidecar keeps
\* its content; a file whose retrieval ended NotFound or Exhausted is looked
\* up again.
C18_RerunIdempotent ==
    /\ lastEnd.wasOk =>
          /\ lastEnd.calls = 0
          /\ LastSidecar.exists
          /\ LastSidecar = fsStart[LyricsFile(tree[lastEnd.entry])]
    /\ lastEnd.wasErr => lastEnd.calls > 0

\* C18, amended: a sidecar that exists when a run starts keeps its content
\* in that run, and an audio file with such a sidecar is skipped without a
\* lookup call; a file whose retrieval has ended in an earlier run, with
\* whatever outcome, and which has no sidecar when it is handed over, is not
\* skipped, and is looked up again unless open, tag read or duration fail.
C18_RerunSkipsSidecars ==
    /\ \A b \in Bases : fsStart[b].exists => fs[b] = fsStart[b]
    /\ lastEnd.end # "none" =>
          LET e == tree[lastEnd.entry]
          IN  /\ (e.type # "dir" /\ Supported(e) /\ fsStart[LyricsFile(e)].exists) =>
                    /\ lastEnd.end = "skipped"
                    /\ lastEnd.calls = 0
              /\ ( /\ wpc # "retrieve"
                   /\ lastEnd.wasOk \/ lastEnd.wasErr
                   /\ ~fsBefore[LyricsFile(e)].exists ) =>
                    /\ lastEnd.end # "skipped"
                    /\ lastEnd.end \notin BeforeLookup => lastEnd.calls > 0

\* in the second run a file fetched in the first is skipped and its sidecar
\* holds the lyrics of the first run
C18_Witness ==
    /\ run = 2
    /\ lastEnd.wasOk
    /\ lastEnd.end = "skipped"
    /\ LastSidecar = [exists |-> TRUE, text |-> NumLyrics, whole |-> TRUE]

\* the one call of the earlier variant has returned a 404
Earlier404 == pc = "earlierdone" /\ retCode = 404

\* what the loop body of the later variant does with the same first outcome
LaterOnSame == Classify(retCode, err, res)

\* C19 as stated: on a 404 the earlier variant does not special-case the
\* status and retries, the later variant returns the not-found error without
\* retrying.
C19_EarlierRetries404 ==
    Earlier404 =>
        /\ ret.error.msg # NotFoundError.msg
        /\ calls > 1
        /\ LaterOnSame = "notfound"

\* C19, amended: the earlier variant makes one call whatever the outcome and
\* answers a 404 with the error it returns for any client error or any code
\* other than 200; where the client reports the 404 as an error, the later
\* variant ends with the not-found error on that same outcome.
C19_EarlierNeverRetries ==
    pc = "earlierdone" =>
        /\ calls = 1
        /\ retCode = 404 =>
              /\ ret.error \in {EarlierClientError(err), EarlierCodeError}
              /\ ret.error.msg # NotFoundError.msg
              /\ ret.error = EarlierCodeError <=> err = 0
              /\ err # 0 => LaterOnSame = "notfound"

\* the earlier variant has returned on a 404 that came with an error
C19_Witness == Earlier404 /\ err # 0 /\ calls = 1

=============================================================================
